---------------------------- MODULE Spec2Model ----------------------------
(***************************************************************************)
(* Account store of OpenPanel-FTP: module/ftp.py and module/admin/ftp.py.  *)
(*                                                                         *)
(* Request threads call the create route, update, delete, list and the     *)
(* administrative cleanup against the per-owner Record File                *)
(*   /etc/openpanel/ftp/users/{owner}/users.list                           *)
(* Every file-system call of a handler is one step of the thread that      *)
(* runs it, so that the threads interleave exactly where the operating     *)
(* system lets them.                                                       *)
(*                                                                         *)
(* A text line "a|b|c\n" is the sequence <<"a","b","c">> of its fields;    *)
(* the terminating newline is implicit and is put back by SplitRaw, the    *)
(* one place of the code that splits a line without stripping it.  Field   *)
(* values are delimiter-free strings without surrounding blanks (the       *)
(* routes strip their form inputs).                                        *)
(***************************************************************************)
EXTENDS Integers, Sequences, FiniteSets, TLC

\* ------------------------------------------------------------------ bounds
\* Total number of handler calls the request threads start in one behaviour.
MaxCalls == 2

\* The I/O errors the disk raises in one behaviour of SpecFaults.
MaxIoErrors == 1

\* The request threads (Flask serves each request on its own thread).
Threads == {1, 2}
NoThread == 0

\* ------------------------------------------------------ program constants
\* get_max_ftp_accounts()
get_max_ftp_accounts == 5

Owners == {"alice", "bob"}

\* user_home = f"/home/{username}" as path components
UserHome(owner) == <<"home", owner>>

\* The strings the model uses as folder arguments, with their components
\* (what str.split("/") sees of them).
PathComponents ==
    [p \in {"/home/alice/web", "/home/alice/web2", "/home/alice-evil",
            "/home/alice/../bob", "/home/bob/web", "/home/bob/web2"} |->
        CASE p = "/home/alice/web"    -> <<"home", "alice", "web">>
          [] p = "/home/alice/web2"   -> <<"home", "alice", "web2">>
          [] p = "/home/alice-evil"   -> <<"home", "alice-evil">>
          [] p = "/home/alice/../bob" -> <<"home", "alice", "..", "bob">>
          [] p = "/home/bob/web"      -> <<"home", "bob", "web">>
          [] p = "/home/bob/web2"     -> <<"home", "bob", "web2">>]

\* werkzeug's generate_password_hash: a one-way image of the password,
\* never the password itself.
generate_password_hash(password) ==
    CASE password = "pw1" -> "pbkdf2:pw1"
      [] password = "pw2" -> "pbkdf2:pw2"

\* "No argument": None, or the empty string the routes turn into None.
None == ""

\* --------------------------------------------------------- path validation
\* os.path.abspath on an absolute path: drop "." and "", resolve ".."
\* lexically (no symlink is followed).
RECURSIVE NormPath(_, _)
NormPath(comps, acc) ==
    IF comps = <<>> THEN acc
    ELSE LET c == Head(comps) IN
         IF c = "." \/ c = "" THEN NormPath(Tail(comps), acc)
         ELSE IF c = ".."
              THEN NormPath(Tail(comps),
                            IF acc = <<>> THEN acc
                            ELSE SubSeq(acc, 1, Len(acc) - 1))
              ELSE NormPath(Tail(comps), Append(acc, c))

abspath(folder) == NormPath(PathComponents[folder], <<>>)

\* os.path.commonpath of two absolute paths: the longest common prefix,
\* component by component.
RECURSIVE commonpath(_, _)
commonpath(a, b) ==
    IF a = <<>> \/ b = <<>> \/ Head(a) # Head(b) THEN <<>>
    ELSE <<Head(a)>> \o commonpath(Tail(a), Tail(b))

\* Variant of PathWithinHome: folder_path.startswith(user_home) on the
\* string as given, neither normalised nor compared by component.
PathStartsWithHome(owner, folder) ==
    LET c == PathComponents[folder] IN
    /\ Len(c) >= 2
    /\ c[1] = "home"
    /\ c[2] \in (IF owner = "alice" THEN {"alice", "alice-evil"} ELSE {owner})

\* validate_ftp_path, the containment test (the makedirs that follows a
\* passed test is in the actions).

PathWithinHome(owner, folder) ==
    commonpath(UserHome(owner), abspath(folder)) = UserHome(owner)

\* ------------------------------------------------------------ record lines
\* f"{ftp_username}|{hashed_password}|{folder}\n"
FormatRecord(ftp_username, password_hash, folder) ==
    <<ftp_username, password_hash, folder>>

BlankLine == <<"">>

\* line.strip().split("|"): the fields, the newline stripped.
StripSplit(line) == line

\* line.split("|") as create_ftp_account does it, on the unstripped line:
\* the last part keeps the line's "\n".  Each part is [s, nl].
SplitRaw(line) ==
    [i \in 1..Len(line) |-> [s |-> line[i], nl |-> (i = Len(line))]]

RawStr(s) == [s |-> s, nl |-> FALSE]

\* `if line.strip()`: a line of blanks only is no record.
IsBlank(line) == line = BlankLine

\* read_user_list: the parts of every non-blank line, in file order.
ParseUserList(lines) ==
    SelectSeq(lines, LAMBDA l : ~IsBlank(l))

\* list_ftp_accounts: username and directory of each parsed line.
DefaultDirectory(username) == <<"/ftp/", username>>

ListEntry(parts) ==
    [username  |-> parts[1],
     directory |-> IF Len(parts) > 2 THEN <<parts[3]>>
                   ELSE DefaultDirectory(parts[1])]

ListAccounts(lines) ==
    LET p == ParseUserList(lines)
    IN  [i \in 1..Len(p) |-> ListEntry(p[i])]

\* count_user_ftp_accounts on the file's lines
CountAccounts(lines) == Len(ParseUserList(lines))

\* Variant of CanCreate: the comparison off by one.
CanCreateOffByOne(current_count) == current_count <= get_max_ftp_accounts

\* can_create_ftp_account: current_count < max_accounts

CanCreate(current_count) == current_count < get_max_ftp_accounts

\* create_ftp_account: any(line.split("|")[0] == ftp_username for line in f)
UsernameTaken(lines, ftp_username) ==
    \E i \in 1..Len(lines) : SplitRaw(lines[i])[1] = RawStr(ftp_username)

\* delete_ftp_account, the loop body: the line is dropped when its first
\* stripped part is the username, else copied.
DeleteLine(line, ftp_username) ==
    IF StripSplit(line)[1] = ftp_username THEN <<>> ELSE <<line>>

\* Variant of UpdateLine: full replacement, nothing kept of the old line.
UpdateLineClobber(line, ftp_username, new_password, new_folder) ==
    IF StripSplit(line)[1] = ftp_username
    THEN <<FormatRecord(ftp_username,
                        IF new_password # None
                        THEN generate_password_hash(new_password) ELSE "",
                        new_folder)>>
    ELSE <<line>>

\* update_ftp_account, the loop body: the matching line is rewritten with
\* the new values, each missing one taken from the old line; other lines
\* are copied.
UpdateLine(line, ftp_username, new_password, new_folder) ==
    LET parts == StripSplit(line) IN
    IF parts[1] = ftp_username
    THEN LET current_password_hash == IF Len(parts) > 1 THEN parts[2] ELSE ""
             current_folder        == IF Len(parts) > 2 THEN parts[3] ELSE ""
             password_hash == IF new_password # None
                              THEN generate_password_hash(new_password)
                              ELSE current_password_hash
             folder == IF new_folder # None THEN new_folder ELSE current_folder
         IN  <<FormatRecord(ftp_username, password_hash, folder)>>
    ELSE <<line>>

\* Variant of Found: the not-found test never fires.
FoundAlways(lines, ftp_username) == TRUE

\* `found`: some line's first stripped part is the username.
Found(lines, ftp_username) ==
    \E i \in 1..Len(lines) : StripSplit(lines[i])[1] = ftp_username

\* What the loop of delete_ftp_account writes to f_out.
RECURSIVE DeleteRewrite(_, _)
DeleteRewrite(lines, ftp_username) ==
    IF lines = <<>> THEN <<>>
    ELSE DeleteLine(Head(lines), ftp_username)
         \o DeleteRewrite(Tail(lines), ftp_username)

\* What the loop of update_ftp_account writes to f_out.
RECURSIVE UpdateRewrite(_, _, _, _)
UpdateRewrite(lines, ftp_username, new_password, new_folder) ==
    IF lines = <<>> THEN <<>>
    ELSE UpdateLine(Head(lines), ftp_username, new_password, new_folder)
         \o UpdateRewrite(Tail(lines), ftp_username, new_password, new_folder)

\* ---------------------------------------------------------------- calls
\* A handler call: the handler and its arguments.  password and folder are
\* None where the handler takes none or the form field was left empty.
Call(op, owner, ftp_username, password, folder) ==
    [op |-> op, owner |-> owner, ftp_username |-> ftp_username,
     password |-> password, folder |-> folder]

NoCall == Call("none", "alice", None, None, None)

\* The calls request threads issue for owner alice.
AliceCalls ==
    {Call("create", "alice", n, "pw1", f) :
        n \in {"ftp1", "ftp2"}, f \in {"/home/alice/web2", "/home/alice-evil"}}
    \cup {Call("update", "alice", n, a[1], a[2]) :
        n \in {"ftp1", "ftp2"},
        a \in {<<"pw1", None>>, <<None, "/home/alice/web2">>,
               <<"pw1", "/home/alice/web2">>, <<None, "/home/alice-evil">>}}
    \cup {Call("delete", "alice", n, None, None) : n \in {"ftp1", "ftp2"}}
    \cup {Call("cleanup", "alice", None, None, None),
          Call("list", "alice", None, None, None)}

\* ------------------------------------------------------------- disk state
NoFile == [ex |-> FALSE, lines |-> <<>>]
FileOf(lines) == [ex |-> TRUE, lines |-> lines]

\* One owner's store directory /etc/openpanel/ftp/users/{owner}: whether it
\* exists, users.list and users.list.tmp.
Store(d, f, t) == [dir |-> d, file |-> f, tmp |-> t]

Rec3(n, folder) == <<n, "pbkdf2:pw0", folder>>

\* Record Files found on disk when the process starts: none, one written by
\* create_ftp_account, one in the older short formats (with a blank line),
\* one in the long format with uid, gid and quotas, and files one below and
\* at the account limit.
AliceStores ==
    { Store(FALSE, NoFile, NoFile),
      Store(TRUE, FileOf(<< Rec3("ftp1", "/home/alice/web") >>), NoFile),
      Store(TRUE, FileOf(<< <<"ftp1">>, BlankLine, <<"ftp2", "pbkdf2:pw0">> >>),
            NoFile),
      Store(TRUE, FileOf(<< <<"ftp1", "pbkdf2:pw0", "/home/alice/web",
                             "1000", "1000", "10", "20">> >>), NoFile),
      Store(TRUE, FileOf(<< Rec3("acc1", "/home/alice/web"),
                            Rec3("acc2", "/home/alice/web"),
                            Rec3("acc3", "/home/alice/web"),
                            Rec3("acc4", "/home/alice/web") >>), NoFile),
      Store(TRUE, FileOf(<< Rec3("acc1", "/home/alice/web"),
                            Rec3("acc2", "/home/alice/web"),
                            Rec3("acc3", "/home/alice/web"),
                            Rec3("acc4", "/home/alice/web"),
                            Rec3("acc5", "/home/alice/web") >>), NoFile) }

BobStore == Store(TRUE, FileOf(<< Rec3("ftp1", "/home/bob/web") >>), NoFile)

VARIABLES
    fs,        \* owner -> Store: the directory, users.list, users.list.tmp
    homes,     \* the home directories that exist (absolute, as components)
    lock,      \* file_lock: the thread holding it, or NoThread
    pc,        \* thread -> where it is in its handler ("idle": in none)
    call,      \* thread -> its current (or last) call
    res,       \* thread -> result of its last finished call
    buf,       \* thread -> the lines read through f_in
    found,     \* thread -> `found` of update/delete
    obs,       \* thread -> what its last list call returned
    ncalls,    \* thread -> number of calls it has started
    fs0,       \* the stores as they were at start (never changes)
    workload,  \* the calls the threads may issue (never changes)
    overlap,   \* history: some call started while another was running
    dirty,     \* history: thread -> what its current call has changed on disk
    reloads,   \* history: thread -> restarts its current call has asked for
    io_errors  \* the I/O errors the disk may still raise

vars == <<fs, homes, lock, pc, call, res, buf, found, obs, ncalls, fs0,
          workload, overlap, dirty, reloads, io_errors>>

\* --------------------------------------------------------------- results
Succeeded(r) == r \in {"Success", "Degraded"}

ValidationFailures == {"InvalidPath", "Duplicate", "LimitExceeded", "NotFound"}

Results == {"Success", "Degraded", "Listed", "StorageError"} \cup ValidationFailures

RECURSIVE SumCalls(_)
SumCalls(S) ==
    IF S = {} THEN 0
    ELSE LET t == CHOOSE x \in S : TRUE IN ncalls[t] + SumCalls(S \ {t})

Idle(t) == pc[t] = "idle"
Finished(t) == Idle(t) /\ ncalls[t] > 0

\* Variant of O: every call works in the same store directory.
OShared(t) == "alice"

\* user_dir = os.path.join(FTP_USERS_DIR, openpanel_username): the owner in
\* whose store directory the call of thread t works.

O(t) == call[t].owner

Entry(op) ==
    CASE op = "create"  -> "c_count"
      [] op = "update"  -> "u_validate"
      [] op = "delete"  -> "rw_exists"
      [] op = "cleanup" -> "k_dir"
      [] op = "list"    -> "l_exists"

\* The handler returns r to its caller.
Return(t, r) ==
    /\ pc' = [pc EXCEPT ![t] = "idle"]
    /\ res' = [res EXCEPT ![t] = r]
    /\ buf' = [buf EXCEPT ![t] = <<>>]
    /\ found' = [found EXCEPT ![t] = FALSE]

Goto(t, where) ==
    /\ pc' = [pc EXCEPT ![t] = where]
    /\ UNCHANGED <<res, buf, found>>

\* Variant of Release: the lock stays with the thread that took it.
ReleaseKeeps(t) == UNCHANGED lock

\* Leaving a `with file_lock:` block, by any exit.

Release(t) == lock' = NoThread

TypeOK ==
    /\ lock \in Threads \cup {NoThread}
    /\ \A t \in Threads : res[t] \in Results \cup {"none"}
    /\ \A o \in Owners : fs[o].dir \in BOOLEAN

InitAll(alice_stores, bob_stores, calls, errors) ==
    /\ fs \in {[o \in Owners |-> IF o = "alice" THEN a ELSE b] :
                 a \in alice_stores, b \in bob_stores}
    /\ fs0 = fs
    /\ homes = {abspath("/home/alice/web"), abspath("/home/bob/web")}
    /\ lock = NoThread
    /\ pc = [t \in Threads |-> "idle"]
    /\ call = [t \in Threads |-> NoCall]
    /\ res = [t \in Threads |-> "none"]
    /\ buf = [t \in Threads |-> <<>>]
    /\ found = [t \in Threads |-> FALSE]
    /\ obs = [t \in Threads |-> <<>>]
    /\ ncalls = [t \in Threads |-> 0]
    /\ workload = calls
    /\ overlap = FALSE
    /\ dirty = [t \in Threads |-> {}]
    /\ reloads = [t \in Threads |-> 0]
    /\ io_errors = errors

\* A disk that raises no I/O error.
InitWith(stores, calls) == InitAll(stores, {BobStore}, calls, 0)

Init == InitWith(AliceStores, AliceCalls)

\* A request arrives and its handler starts on thread t.
Start(t) ==
    /\ Idle(t)
    /\ SumCalls(Threads) < MaxCalls
    /\ \E c \in workload :
        /\ call' = [call EXCEPT ![t] = c]
        /\ pc' = [pc EXCEPT ![t] = Entry(c.op)]
    /\ res' = [res EXCEPT ![t] = "none"]
    /\ ncalls' = [ncalls EXCEPT ![t] = @ + 1]
    /\ overlap' = (overlap \/ \E u \in Threads \ {t} : ~Idle(u))
    /\ dirty' = [dirty EXCEPT ![t] = {}]
    /\ reloads' = [reloads EXCEPT ![t] = 0]
    /\ UNCHANGED <<fs, homes, lock, buf, found, obs, fs0, workload, io_errors>>

\* History only: what the step of thread t changes on disk, added to what
\* its call has changed so far.  "tmp_live" is a temp file the call made and
\* has not yet removed or renamed.
Changed(t) ==
    LET o == O(t) IN
    {k \in {"file", "tmp", "dir", "home"} :
        \/ k = "file" /\ fs'[o].file # fs[o].file
        \/ k = "tmp"  /\ fs'[o].tmp # fs[o].tmp
        \/ k = "dir"  /\ fs'[o].dir # fs[o].dir
        \/ k = "home" /\ homes' # homes}

Touch(t) ==
    LET o == O(t)
        made == fs'[o].tmp.ex /\ ~fs[o].tmp.ex
        gone == ~fs'[o].tmp.ex /\ fs[o].tmp.ex
    IN  dirty' = [dirty EXCEPT ![t] =
                    ((@ \cup Changed(t)) \ (IF gone THEN {"tmp_live"} ELSE {}))
                    \cup (IF made THEN {"tmp_live"} ELSE {})]

\* ------------------------------------------------- file-system primitives
\* open(user_list_file, "a"): creates an empty file when there is none.
OpenAppend(st) == [st EXCEPT !.file = FileOf(st.file.lines)]

\* Variant of WriteAppend: the record is put before the lines of the file.
WriteAppendFront(st, line) ==
    IF st.file.ex THEN [st EXCEPT !.file = FileOf(<<line>> \o st.file.lines)]
    ELSE st

\* f.write(line) and close, through the descriptor OpenAppend gave: one
\* O_APPEND write.  If the path was unlinked since, the line goes to the
\* orphaned inode and the path stays absent.

WriteAppend(st, line) ==
    IF st.file.ex THEN [st EXCEPT !.file = FileOf(Append(st.file.lines, line))]
    ELSE st

\* Variant of OpenTemp: the rewrite truncates users.list itself.
OpenTempInPlace(st) == [st EXCEPT !.file = FileOf(<<>>)]

\* open(temp_file, "w"): creates or truncates users.list.tmp.

OpenTemp(st) == [st EXCEPT !.tmp = FileOf(<<>>)]

\* Closing f_out flushes what the loop wrote.
FlushTemp(st, out) ==
    IF st.tmp.ex THEN [st EXCEPT !.tmp = FileOf(out)] ELSE st

\* os.replace(temp_file, user_list_file)
Replace(st) == [st EXCEPT !.file = FileOf(st.tmp.lines), !.tmp = NoFile]

\* Variant of UnlinkTemp: the temp file is left where it is.
UnlinkTempNoop(st) == st

\* os.unlink(temp_file)

UnlinkTemp(st) == [st EXCEPT !.tmp = NoFile]

\* os.unlink(user_list_file)
UnlinkFile(st) == [st EXCEPT !.file = NoFile]

\* os.rmdir(user_dir) succeeds on an existing, empty directory.
CanRmdir(st) == st.dir /\ ~st.file.ex /\ ~st.tmp.ex

\* Variant of LockFree: the lock excludes nobody.
LockFreeAlways(l) == TRUE

\* `with file_lock:` is entered only while no thread holds the lock.

LockFree(l) == l = NoThread

\* ------------------------------------------------------- the create route
\* ftp_create_account -> can_create_ftp_account -> count_user_ftp_accounts:
\* os.path.exists(user_list_file); no file counts as 0 accounts.
RouteCountExists(t) ==
    /\ pc[t] = "c_count"
    /\ IF fs[O(t)].file.ex
       THEN Goto(t, "c_count_read")
       ELSE IF CanCreate(0) THEN Goto(t, "c_validate")
            ELSE Return(t, "LimitExceeded")
    /\ UNCHANGED <<fs, homes, lock, call, obs, ncalls, fs0, workload, overlap, reloads, io_errors>>
    /\ Touch(t)

\* read_user_list and the comparison with the limit; a file that vanished
\* since the exists test reads as [].
RouteCountRead(t) ==
    /\ pc[t] = "c_count_read"
    /\ LET current_count == IF fs[O(t)].file.ex
                            THEN CountAccounts(fs[O(t)].file.lines) ELSE 0
       IN  IF CanCreate(current_count) THEN Goto(t, "c_validate")
           ELSE Return(t, "LimitExceeded")
    /\ UNCHANGED <<fs, homes, lock, call, obs, ncalls, fs0, workload, overlap, reloads, io_errors>>
    /\ Touch(t)

\* validate_ftp_path, shared by create_ftp_account and update_ftp_account:
\* the containment test, then os.makedirs(abs_folder_path, exist_ok=True).
ValidatePath(t, next) ==
    IF PathWithinHome(O(t), call[t].folder)
    THEN /\ homes' = homes \cup {abspath(call[t].folder)}
         /\ Goto(t, next)
    ELSE /\ homes' = homes
         /\ Return(t, "InvalidPath")

CreateValidate(t) ==
    /\ pc[t] = "c_validate"
    /\ ValidatePath(t, "c_mkdir")
    /\ UNCHANGED <<fs, lock, call, obs, ncalls, fs0, workload, overlap, reloads, io_errors>>
    /\ Touch(t)

\* os.makedirs(user_dir, mode=0o750, exist_ok=True)
CreateMkdir(t) ==
    /\ pc[t] = "c_mkdir"
    /\ fs' = [fs EXCEPT ![O(t)].dir = TRUE]
    /\ Goto(t, "c_exists")
    /\ UNCHANGED <<homes, lock, call, obs, ncalls, fs0, workload, overlap, reloads, io_errors>>
    /\ Touch(t)

\* if os.path.exists(user_list_file): tested outside the lock
CreateExists(t) ==
    /\ pc[t] = "c_exists"
    /\ Goto(t, IF fs[O(t)].file.ex THEN "c_lock1" ELSE "c_lock2")
    /\ UNCHANGED <<fs, homes, lock, call, obs, ncalls, fs0, workload, overlap, reloads, io_errors>>
    /\ Touch(t)

\* `with file_lock:` of any handler: blocks until the lock is free.
AfterLock(p) ==
    CASE p = "c_lock1" -> "c_check"
      [] p = "c_lock2" -> "c_open"
      [] p = "rw_lock" -> "rw_open"

Acquire(t) ==
    /\ pc[t] \in {"c_lock1", "c_lock2", "rw_lock"}
    /\ LockFree(lock)
    /\ lock' = t
    /\ Goto(t, AfterLock(pc[t]))
    /\ UNCHANGED <<fs, homes, call, obs, ncalls, fs0, workload, overlap, reloads, io_errors>>
    /\ Touch(t)

\* The duplicate check, in its own locked block: the file is read and the
\* lock released before the append takes it again.
CreateCheck(t) ==
    /\ pc[t] = "c_check"
    /\ IF ~fs[O(t)].file.ex
       THEN Return(t, "StorageError")
       ELSE IF UsernameTaken(fs[O(t)].file.lines, call[t].ftp_username)
            THEN Return(t, "Duplicate")
            ELSE Goto(t, "c_lock2")
    /\ Release(t)
    /\ UNCHANGED <<fs, homes, call, obs, ncalls, fs0, workload, overlap, reloads, io_errors>>
    /\ Touch(t)

\* with open(user_list_file, "a"): fails when the directory is gone.
CreateOpen(t) ==
    /\ pc[t] = "c_open"
    /\ IF fs[O(t)].dir
       THEN /\ fs' = [fs EXCEPT ![O(t)] = OpenAppend(@)]
            /\ Goto(t, "c_write")
            /\ UNCHANGED lock
       ELSE /\ Return(t, "StorageError")
            /\ Release(t)
            /\ UNCHANGED fs
    /\ UNCHANGED <<homes, call, obs, ncalls, fs0, workload, overlap, reloads, io_errors>>
    /\ Touch(t)

\* generate_password_hash, f.write, close, and the end of the locked block.
CreateWrite(t) ==
    /\ pc[t] = "c_write"
    /\ fs' = [fs EXCEPT ![O(t)] =
                WriteAppend(@, FormatRecord(call[t].ftp_username,
                                            generate_password_hash(call[t].password),
                                            call[t].folder))]
    /\ Release(t)
    /\ Goto(t, "reload")
    /\ UNCHANGED <<homes, call, obs, ncalls, fs0, workload, overlap, reloads, io_errors>>
    /\ Touch(t)

\* Variant of ReloadResult: a failed restart fails the operation.
ReloadResultFails(restart_success) ==
    IF restart_success THEN "Success" ELSE "StorageError"

\* The handlers after _run_docker_restart: `return True, ...` whether the
\* restart worked or not; only the message differs.

ReloadResult(restart_success) ==
    IF restart_success THEN "Success" ELSE "Degraded"

\* Variant of Restarts: the restart command is run a second time.
RestartsTwice(n) == n + 2

\* _run_docker_restart runs `docker restart openadmin_ftp` once.

Restarts(n) == n + 1

\* _run_docker_restart: the restart works, or fails or times out (every
\* exception is caught inside); either way the handler reports success.
Reload(t) ==
    /\ pc[t] = "reload"
    /\ \E restart_success \in BOOLEAN :
         Return(t, ReloadResult(restart_success))
    /\ reloads' = [reloads EXCEPT ![t] = Restarts(@)]
    /\ UNCHANGED <<fs, homes, lock, call, obs, ncalls, fs0, workload, overlap, io_errors>>
    /\ Touch(t)

\* ------------------------------------------------------- update and delete
\* update_ftp_account: a new folder is validated first.
UpdateValidate(t) ==
    /\ pc[t] = "u_validate"
    /\ IF call[t].folder # None
       THEN ValidatePath(t, "rw_exists")
       ELSE /\ homes' = homes
            /\ Goto(t, "rw_exists")
    /\ UNCHANGED <<fs, lock, call, obs, ncalls, fs0, workload, overlap, reloads, io_errors>>
    /\ Touch(t)

\* if not os.path.exists(user_list_file): return False, "... not found"
RewriteExists(t) ==
    /\ pc[t] = "rw_exists"
    /\ IF fs[O(t)].file.ex THEN Goto(t, "rw_lock") ELSE Return(t, "NotFound")
    /\ UNCHANGED <<fs, homes, lock, call, obs, ncalls, fs0, workload, overlap, reloads, io_errors>>
    /\ Touch(t)

\* Whether the file-system call of this step raises OSError: never, once
\* the disk has raised all the errors it had.
IoErrors == IF io_errors > 0 THEN BOOLEAN ELSE {FALSE}

Raised(io_error) == io_errors' = io_errors - (IF io_error THEN 1 ELSE 0)

\* Variant of RewriteFails: the error path returns with the lock still held.
RewriteFailsHoldsLock(t) ==
    /\ fs' = [fs EXCEPT ![O(t)] = UnlinkTemp(@)]
    /\ Return(t, "StorageError")
    /\ UNCHANGED lock

\* Variant of RewriteFails: the error path renames the temp file into place.
RewriteFailsCommits(t) ==
    /\ fs' = [fs EXCEPT ![O(t)] = Replace(@)]
    /\ Return(t, "StorageError")
    /\ Release(t)

\* The inner `except OSError`: the temp file, if it exists, is unlinked and
\* the handler returns "Error processing file"; the lock is released.

RewriteFails(t) ==
    /\ fs' = [fs EXCEPT ![O(t)] = UnlinkTemp(@)]
    /\ Return(t, "StorageError")
    /\ Release(t)

\* open(user_list_file, "r") then open(temp_file, "w").  A missing file, or
\* an I/O error of either open, raises in the inner try.
RewriteOpen(t) ==
    /\ pc[t] = "rw_open"
    /\ \E io_error \in IoErrors :
         /\ Raised(io_error)
         /\ IF fs[O(t)].file.ex /\ ~io_error
            THEN /\ fs' = [fs EXCEPT ![O(t)] = OpenTemp(@)]
                 /\ pc' = [pc EXCEPT ![t] = "rw_write"]
                 /\ buf' = [buf EXCEPT ![t] = fs[O(t)].file.lines]
                 /\ UNCHANGED <<res, found, lock>>
            ELSE RewriteFails(t)
    /\ UNCHANGED <<homes, call, obs, ncalls, fs0, workload, overlap, reloads>>
    /\ Touch(t)

\* The loop over f_in and the close of both files.
Rewritten(c, lines) ==
    IF c.op = "delete" THEN DeleteRewrite(lines, c.ftp_username)
    ELSE UpdateRewrite(lines, c.ftp_username, c.password, c.folder)

\* An I/O error while reading f_in, writing f_out or closing either raises
\* in the inner try.
RewriteWrite(t) ==
    /\ pc[t] = "rw_write"
    /\ \E io_error \in IoErrors :
         /\ Raised(io_error)
         /\ IF io_error
            THEN RewriteFails(t)
            ELSE /\ fs' = [fs EXCEPT ![O(t)] =
                             FlushTemp(@, Rewritten(call[t], buf[t]))]
                 /\ found' = [found EXCEPT ![t] =
                                Found(buf[t], call[t].ftp_username)]
                 /\ pc' = [pc EXCEPT ![t] = "rw_commit"]
                 /\ UNCHANGED <<lock, res, buf>>
    /\ UNCHANGED <<homes, call, obs, ncalls, fs0, workload, overlap, reloads>>
    /\ Touch(t)

\* if not found: unlink the temp file and fail; else os.replace.  Either
\* call raises OSError when the temp file is not there, and os.replace may
\* raise an I/O error, leaving both files as they are.  The exception
\* leaves the `with file_lock:` block and reaches the outer `except
\* OSError` ("rw_failed"), which, the lock no longer held, unlinks the temp
\* file if one exists and returns "File system error".
RewriteCommit(t) ==
    /\ pc[t] \in {"rw_commit", "rw_failed"}
    /\ IF pc[t] = "rw_failed"
       THEN /\ fs' = [fs EXCEPT ![O(t)] = UnlinkTemp(@)]
            /\ Return(t, "StorageError")
            /\ UNCHANGED <<lock, io_errors>>
       ELSE /\ \E io_error \in (IF fs[O(t)].tmp.ex /\ found[t]
                               THEN IoErrors ELSE {FALSE}) :
                /\ Raised(io_error)
                /\ IF ~fs[O(t)].tmp.ex \/ io_error
                   THEN /\ Goto(t, "rw_failed")
                        /\ UNCHANGED fs
                   ELSE IF ~found[t]
                        THEN /\ fs' = [fs EXCEPT ![O(t)] = UnlinkTemp(@)]
                             /\ Return(t, "NotFound")
                        ELSE /\ fs' = [fs EXCEPT ![O(t)] = Replace(@)]
                             /\ pc' = [pc EXCEPT ![t] = "reload"]
                             /\ buf' = [buf EXCEPT ![t] = <<>>]
                             /\ found' = [found EXCEPT ![t] = FALSE]
                             /\ UNCHANGED res
            /\ Release(t)
    /\ UNCHANGED <<homes, call, obs, ncalls, fs0, workload, overlap, reloads>>
    /\ Touch(t)

\* ------------------------------------------------ administrative cleanup
\* delete_user_ftp_accounts: if not os.path.exists(user_dir): return True
CleanupDirExists(t) ==
    /\ pc[t] = "k_dir"
    /\ IF fs[O(t)].dir THEN Goto(t, "k_file") ELSE Return(t, "Success")
    /\ UNCHANGED <<fs, homes, lock, call, obs, ncalls, fs0, workload, overlap, reloads, io_errors>>
    /\ Touch(t)

\* if os.path.exists(user_list_file)
CleanupFileExists(t) ==
    /\ pc[t] = "k_file"
    /\ Goto(t, IF fs[O(t)].file.ex THEN "k_unlink" ELSE "k_rmdir")
    /\ UNCHANGED <<fs, homes, lock, call, obs, ncalls, fs0, workload, overlap, reloads, io_errors>>
    /\ Touch(t)

\* os.unlink(user_list_file); an OSError is logged and ignored.
CleanupUnlink(t) ==
    /\ pc[t] = "k_unlink"
    /\ fs' = [fs EXCEPT ![O(t)] = UnlinkFile(@)]
    /\ Goto(t, "k_rmdir")
    /\ UNCHANGED <<homes, lock, call, obs, ncalls, fs0, workload, overlap, reloads, io_errors>>
    /\ Touch(t)

\* os.rmdir(user_dir): fails on a missing or non-empty directory.
CleanupRmdir(t) ==
    /\ pc[t] = "k_rmdir"
    /\ IF CanRmdir(fs[O(t)])
       THEN /\ fs' = [fs EXCEPT ![O(t)].dir = FALSE]
            /\ Return(t, "Success")
       ELSE /\ UNCHANGED fs
            /\ Return(t, "StorageError")
    /\ UNCHANGED <<homes, lock, call, obs, ncalls, fs0, workload, overlap, reloads, io_errors>>
    /\ Touch(t)

\* ------------------------------------------------------------------- list
\* list_ftp_accounts: if not os.path.exists(user_list_file): return []
ListExists(t) ==
    /\ pc[t] = "l_exists"
    /\ IF fs[O(t)].file.ex
       THEN /\ Goto(t, "l_read")
            /\ UNCHANGED obs
       ELSE /\ obs' = [obs EXCEPT ![t] = <<>>]
            /\ Return(t, "Listed")
    /\ UNCHANGED <<fs, homes, lock, call, ncalls, fs0, workload, overlap, reloads, io_errors>>
    /\ Touch(t)

\* read_user_list (one read of the whole file, no lock) and the parse.
ListRead(t) ==
    /\ pc[t] = "l_read"
    /\ obs' = [obs EXCEPT ![t] =
                 IF fs[O(t)].file.ex THEN ListAccounts(fs[O(t)].file.lines)
                 ELSE <<>>]
    /\ Return(t, "Listed")
    /\ UNCHANGED <<fs, homes, lock, call, ncalls, fs0, workload, overlap, reloads, io_errors>>
    /\ Touch(t)

\* ---------------------------------------------------------- specification
Next ==
    \E t \in Threads :
        \/ Start(t)
        \/ RouteCountExists(t)
        \/ RouteCountRead(t)
        \/ CreateValidate(t)
        \/ CreateMkdir(t)
        \/ CreateExists(t)
        \/ Acquire(t)
        \/ CreateCheck(t)
        \/ CreateOpen(t)
        \/ CreateWrite(t)
        \/ Reload(t)
        \/ UpdateValidate(t)
        \/ RewriteExists(t)
        \/ RewriteOpen(t)
        \/ RewriteWrite(t)
        \/ RewriteCommit(t)
        \/ CleanupDirExists(t)
        \/ CleanupFileExists(t)
        \/ CleanupUnlink(t)
        \/ CleanupRmdir(t)
        \/ ListExists(t)
        \/ ListRead(t)

Spec == Init /\ [][Next]_vars

\* The same threads and calls over stores that hold only what
\* create_ftp_account itself writes (three-field records), or nothing.
CreatedStores ==
    {st \in AliceStores :
        \A i \in 1..Len(st.file.lines) : Len(st.file.lines[i]) = 3}

InitCreated == InitWith(CreatedStores, AliceCalls)

SpecCreated == InitCreated /\ [][Next]_vars

\* Calls whose folder argument is inside the owner's home, shares only its
\* string prefix, or leaves it through "..".
Folders == {"/home/alice/web2", "/home/alice-evil", "/home/alice/../bob"}

PathCalls ==
    {Call("create", "alice", "ftp2", "pw1", f) : f \in Folders}
    \cup {Call("update", "alice", "ftp1", None, f) : f \in Folders}
    \cup {Call("update", "alice", "ftp1", "pw1", None),
          Call("delete", "alice", "ftp1", None, None),
          Call("cleanup", "alice", None, None, None),
          Call("list", "alice", None, None, None)}

InitPaths == InitWith(AliceStores, PathCalls)

SpecPaths == InitPaths /\ [][Next]_vars

\* Two owners: calls for alice and for bob, one of alice's aimed at bob's
\* home, over several Record Files of each.
OwnerCalls ==
    UNION {{Call("create", o, "ftp2", "pw1", f),
            Call("update", o, "ftp1", None, f),
            Call("update", o, "ftp1", "pw1", None),
            Call("delete", o, "ftp1", None, None),
            Call("cleanup", o, None, None, None),
            Call("list", o, None, None, None)} :
           o \in Owners, f \in {"/home/alice/web2", "/home/bob/web2"}}

OwnerStores(home) ==
    {Store(FALSE, NoFile, NoFile),
     Store(TRUE, FileOf(<< Rec3("ftp1", home) >>), NoFile),
     Store(TRUE, FileOf(<< Rec3("ftp2", home), Rec3("ftp1", home) >>), NoFile)}

InitOwners ==
    InitAll(OwnerStores("/home/alice/web"), OwnerStores("/home/bob/web"),
            OwnerCalls, 0)

SpecOwners == InitOwners /\ [][Next]_vars

\* A step of the handler running on thread t (any step but the arrival of
\* a request).
Step(t) ==
    \/ RouteCountExists(t) \/ RouteCountRead(t) \/ CreateValidate(t)
    \/ CreateMkdir(t) \/ CreateExists(t) \/ Acquire(t) \/ CreateCheck(t)
    \/ CreateOpen(t) \/ CreateWrite(t) \/ Reload(t) \/ UpdateValidate(t)
    \/ RewriteExists(t) \/ RewriteOpen(t) \/ RewriteWrite(t)
    \/ RewriteCommit(t) \/ CleanupDirExists(t) \/ CleanupFileExists(t)
    \/ CleanupUnlink(t) \/ CleanupRmdir(t) \/ ListExists(t) \/ ListRead(t)

\* A few calls that take every exit of create, update and delete (success,
\* duplicate, not found, I/O error), over a disk that raises I/O errors.
\* Every thread that can take a step of its handler eventually takes one:
\* the operating system schedules the threads, a blocked `with file_lock:`
\* goes on once the lock is free and stays free, and the restart command
\* returns within its timeout of 30 s.
LiveCalls ==
    {Call("create", "alice", "ftp1", "pw1", "/home/alice/web2"),
     Call("update", "alice", "ftp1", "pw1", None),
     Call("delete", "alice", "ftp1", None, None),
     Call("delete", "alice", "ftp2", None, None),
     Call("cleanup", "alice", None, None, None),
     Call("list", "alice", None, None, None)}

InitLive == InitAll(CreatedStores, {BobStore}, LiveCalls, MaxIoErrors)

SpecLive ==
    InitLive /\ [][Next]_vars /\ \A t \in Threads : WF_vars(Step(t))

\* The same threads, stores and calls over a disk that raises I/O errors
\* while update and delete rewrite the file.
InitFaults == InitAll(AliceStores, {BobStore}, AliceCalls, MaxIoErrors)

SpecFaults == InitFaults /\ [][Next]_vars

\* --------------------------------------------- one-at-a-time executions
\* What a call returns: its result (the two successes taken as one), and
\* for list the accounts it returned.
Outcome(r, listed) == [r |-> IF Succeeded(r) THEN "Success" ELSE r, listed |-> listed]

Ran(st, r) == [st |-> st, out |-> Outcome(r, <<>>)]

\* ftp_create_account with create_ftp_account, run alone on store st.
AloneCreate(st, c) ==
    LET current_count == IF st.file.ex THEN CountAccounts(st.file.lines) ELSE 0
        made == [st EXCEPT !.dir = TRUE]
        line == FormatRecord(c.ftp_username, generate_password_hash(c.password),
                             c.folder)
    IN  IF ~CanCreate(current_count) THEN Ran(st, "LimitExceeded")
        ELSE IF ~PathWithinHome(c.owner, c.folder) THEN Ran(st, "InvalidPath")
        ELSE IF st.file.ex /\ UsernameTaken(st.file.lines, c.ftp_username)
             THEN Ran(made, "Duplicate")
        ELSE Ran(WriteAppend(OpenAppend(made), line), "Success")

\* update_ftp_account / delete_ftp_account, run alone on store st.
AloneRewrite(st, c) ==
    IF c.op = "update" /\ c.folder # None /\ ~PathWithinHome(c.owner, c.folder)
    THEN Ran(st, "InvalidPath")
    ELSE IF ~st.file.ex THEN Ran(st, "NotFound")
    ELSE LET written == FlushTemp(OpenTemp(st), Rewritten(c, st.file.lines))
         IN  IF ~Found(st.file.lines, c.ftp_username)
             THEN Ran(UnlinkTemp(written), "NotFound")
             ELSE Ran(Replace(written), "Success")

\* delete_user_ftp_accounts, run alone on store st.
AloneCleanup(st) ==
    IF ~st.dir THEN Ran(st, "Success")
    ELSE LET gone == UnlinkFile(st)
         IN  IF CanRmdir(gone) THEN Ran([gone EXCEPT !.dir = FALSE], "Success")
             ELSE Ran(gone, "StorageError")

\* list_ftp_accounts, run alone on store st.
AloneList(st) ==
    [st |-> st,
     out |-> Outcome("Listed",
                     IF st.file.ex THEN ListAccounts(st.file.lines) ELSE <<>>)]

Alone(st, c) ==
    CASE c.op = "create"  -> AloneCreate(st, c)
      [] c.op \in {"update", "delete"} -> AloneRewrite(st, c)
      [] c.op = "cleanup" -> AloneCleanup(st)
      [] c.op = "list"    -> AloneList(st)

\* Every final store and outcomes that running the calls of the threads in
\* S one after the other, in some order, from store st produces.
RECURSIVE Serial(_, _, _)
Serial(st, S, outs) ==
    IF S = {} THEN {[st |-> st, out |-> outs]}
    ELSE UNION { LET r == Alone(st, call[t])
                 IN  Serial(r.st, S \ {t}, [outs EXCEPT ![t] = r.out])
                 : t \in S }

NoOutcome == Outcome("none", <<>>)

\* Every thread has made exactly one call, all for owner o, and all returned.
AllReturnedOnce(o) ==
    \A t \in Threads : Finished(t) /\ ncalls[t] = 1 /\ O(t) = o

Observed(o) ==
    [st |-> fs[o],
     out |-> [t \in Threads |->
                Outcome(res[t], IF call[t].op = "list" THEN obs[t] ELSE <<>>)]]

SerialOutcome(o) ==
    Observed(o) \in Serial(fs0[o], Threads, [t \in Threads |-> NoOutcome])

\* The usernames of the records of a file, in file order (as list reads them).
Usernames(lines) ==
    LET p == ParseUserList(lines) IN [i \in 1..Len(p) |-> StripSplit(p[i])[1]]

HasRecord(lines, ftp_username) ==
    \E i \in 1..Len(Usernames(lines)) : Usernames(lines)[i] = ftp_username

UniqueUsernames(lines) ==
    \A i, j \in 1..Len(Usernames(lines)) :
        Usernames(lines)[i] = Usernames(lines)[j] => i = j

\* What read_user_list returns for the store: [] when there is no file.
ReadUserList(st) == IF st.file.ex THEN ParseUserList(st.file.lines) ELSE <<>>

\* Thread t takes a step of its handler.
Steps(t) == pc'[t] # pc[t]

\* =================================================================== C1
\* C1: in every reachable state, under any interleaving of create, update
\* and delete calls, no owner's Record File holds two records with the same
\* ftp_username.
C1_UsernamesUnique ==
    \A o \in Owners : UniqueUsernames(fs[o].file.lines)

\* =================================================================== C2
\* C2: in every reachable state an owner's Record File holds at most the
\* configured maximum (5) of records, whatever the interleaving of creations
\* issued through the create route.
C2_CountWithinLimit ==
    \A o \in Owners : CountAccounts(fs[o].file.lines) <= get_max_ftp_accounts

\* =================================================================== C3
\* C3: when an update and a delete of the same owner run concurrently, the
\* final Record File and the two results are those of running the two calls
\* one after the other in some order.
UpdateWithDelete ==
    /\ AllReturnedOnce("alice")
    /\ {call[t].op : t \in Threads} = {"update", "delete"}

C3_UpdateDeleteSerialize ==
    UpdateWithDelete => SerialOutcome("alice")

\* An update and a delete of the same account overlapped, and the update
\* lost: it returned NotFound because the delete went first.
C3_Witness ==
    /\ UpdateWithDelete
    /\ overlap
    /\ \A t \in Threads : call[t].ftp_username = "ftp1"
    /\ \E t, u \in Threads :
         /\ call[t].op = "update" /\ res[t] = "NotFound"
         /\ call[u].op = "delete" /\ Succeeded(res[u])

\* =================================================================== C4
\* C4: a list or count that runs without the lock sees the Record File as
\* it was before a concurrent create, update or delete or as it is after
\* it, never a partly written file: whenever what read_user_list would
\* return changes, the step is the one commit of a call and installs that
\* call's complete result (the old records plus the whole new record; the
\* complete rewrite of what the call read; or no file).
CompleteMutation(t, o) ==
    \/ /\ call[t].op = "create" /\ pc[t] = "c_write"
       /\ ReadUserList(fs'[o]) =
            Append(ReadUserList(fs[o]),
                   FormatRecord(call[t].ftp_username,
                                generate_password_hash(call[t].password),
                                call[t].folder))
    \/ /\ call[t].op \in {"update", "delete"} /\ pc[t] = "rw_commit"
       /\ ReadUserList(fs'[o]) = ParseUserList(Rewritten(call[t], buf[t]))
    \/ /\ call[t].op = "cleanup" /\ pc[t] = "k_unlink"
       /\ ReadUserList(fs'[o]) = <<>>

C4_ReadersSeeWholeFiles ==
    [][\A o \in Owners :
          ReadUserList(fs'[o]) # ReadUserList(fs[o]) =>
             \E t \in Threads : Steps(t) /\ O(t) = o /\ CompleteMutation(t, o)]_vars

\* A list is between its exists test and its read while an update or delete
\* of the same owner has written its temp file and not yet renamed it.
C4_Witness ==
    \E t, u \in Threads :
        /\ pc[t] = "l_read" /\ pc[u] = "rw_commit" /\ found[u]
        /\ O(t) = O(u)
        /\ fs[O(u)].tmp.ex /\ fs[O(u)].file.ex
        /\ fs[O(u)].tmp.lines # fs[O(u)].file.lines

\* =================================================================== C5
\* C5: all operations that change one owner's Record File, the cleanup
\* delete_user_ftp_accounts included, are serialized: when concurrent
\* create, update, delete and cleanup calls have all returned, the store and
\* the results are those of some one-at-a-time order of the calls.
C5_MutationsSerialize ==
    (/\ AllReturnedOnce("alice")
     /\ \A t \in Threads : call[t].op \in {"create", "update", "delete", "cleanup"})
    => SerialOutcome("alice")

\* =================================================================== C6
\* C6: a create whose ftp_username is already in the owner's Record File
\* fails with the duplicate-account result and leaves the Record File with
\* the same lines in the same order.
C6_DuplicateCreateFails ==
    [][\A t \in Threads :
          (/\ call[t].op = "create" /\ pc[t] = "c_check" /\ Steps(t)
           /\ fs[O(t)].file.ex
           /\ HasRecord(fs[O(t)].file.lines, call[t].ftp_username))
          => (res'[t] = "Duplicate" /\ fs' = fs)]_vars

\* =================================================================== C7
\* C7: whenever count(owner) equals the configured maximum, can_create is
\* false and a create for that owner fails with the limit-exceeded result
\* and leaves the Record File (and everything else on disk) unchanged.
C7_LimitRejectsCreate ==
    [][\A t \in Threads :
          (/\ pc[t] = "c_count_read" /\ Steps(t)
           /\ ReadUserList(fs[O(t)]) # <<>>
           /\ CountAccounts(fs[O(t)].file.lines) = get_max_ftp_accounts)
          => (/\ ~CanCreate(CountAccounts(fs[O(t)].file.lines))
              /\ res'[t] = "LimitExceeded" /\ pc'[t] = "idle"
              /\ fs' = fs /\ homes' = homes /\ dirty'[t] = {})]_vars

\* A create returned limit-exceeded on a file holding the maximum.
C7_Witness ==
    \E t \in Threads :
        /\ Finished(t) /\ call[t].op = "create" /\ res[t] = "LimitExceeded"
        /\ CountAccounts(fs[O(t)].file.lines) = get_max_ftp_accounts
        /\ fs = fs0

\* =================================================================== C8
\* C8: a delete whose ftp_username matches no record of the owner's
\* existing Record File fails with NotFound and leaves the Record File
\* byte-identical: no step of a delete before its commit touches the file,
\* and the commit of a delete without a match returns NotFound, leaves the
\* file as it is and removes the temp file.
C8_DeleteMissingNotFound ==
    [][\A t \in Threads :
          (call[t].op = "delete" /\ ~Idle(t) /\ Steps(t)) =>
             /\ pc[t] # "rw_commit" => fs'[O(t)].file = fs[O(t)].file
             /\ (/\ pc[t] = "rw_commit"
                 /\ fs[O(t)].file.ex
                 /\ ~HasRecord(fs[O(t)].file.lines, call[t].ftp_username))
                => (/\ res'[t] = "NotFound"
                    /\ fs'[O(t)].file = fs[O(t)].file
                    /\ ~fs'[O(t)].tmp.ex)]_vars

\* A delete of an absent account returned NotFound after writing and
\* removing its temp file; the Record File is the one found at start.
C8_Witness ==
    \E t \in Threads :
        /\ Finished(t) /\ call[t].op = "delete" /\ res[t] = "NotFound"
        /\ "tmp" \in dirty[t]
        /\ fs[O(t)].file.ex /\ fs[O(t)].file.lines # <<>>
        /\ fs[O(t)] = fs0[O(t)]

\* =================================================================== C9
\* C9 (as claimed): whenever create, update or delete returns a validation
\* failure, the call has changed no persistent state at any step: not the
\* Record File, not a temp file, not the store directory, not the target
\* home directory.
FailedValidation(t) ==
    /\ Finished(t)
    /\ call[t].op \in {"create", "update", "delete"}
    /\ res[t] \in ValidationFailures

C9_NothingChangedOnValidationFailure ==
    \A t \in Threads : FailedValidation(t) => dirty[t] = {}

\* C9 (amended): whenever create, update or delete returns a validation
\* failure, the call has not changed the Record File at any step and has
\* left no temp file of its own behind; it may have created the target home
\* directory and the store directory, and written and removed a temp file.
C9_RecordFileUntouchedOnValidationFailure ==
    \A t \in Threads :
        FailedValidation(t) => dirty[t] \cap {"file", "tmp_live"} = {}

\* An update returned NotFound after it created the new home directory and
\* wrote and removed a temp file.
C9_Witness ==
    \E t \in Threads :
        /\ FailedValidation(t) /\ call[t].op = "update" /\ res[t] = "NotFound"
        /\ {"home", "tmp"} \subseteq dirty[t]

\* ================================================================== C10
\* C10: for a record stored with username, password hash and home
\* directory, a successful update that supplies only a new home directory
\* leaves the stored password hash unchanged, and one that supplies only a
\* new password leaves the stored home directory unchanged.
C10_UpdateKeepsUnsuppliedField ==
    [][\A t \in Threads :
          (/\ call[t].op = "update" /\ pc[t] = "rw_commit" /\ pc'[t] = "reload"
           /\ fs[O(t)].file.ex)
          => LET old == fs[O(t)].file.lines
                 new == fs'[O(t)].file.lines
             IN  /\ Len(new) = Len(old)
                 /\ \A i \in 1..Len(old) :
                       (Len(old[i]) = 3 /\ old[i][1] = call[t].ftp_username)
                       => /\ Len(new[i]) = 3
                          /\ new[i][1] = old[i][1]
                          /\ call[t].password = None => new[i][2] = old[i][2]
                          /\ call[t].folder = None => new[i][3] = old[i][3]]_vars

\* An update of ftp1 with only a new folder succeeded: the record has the
\* new folder and the password hash it was stored with.
C10_Witness ==
    \E t \in Threads :
        /\ Finished(t) /\ call[t].op = "update" /\ Succeeded(res[t])
        /\ call[t].password = None /\ call[t].folder = "/home/alice/web2"
        /\ fs0["alice"].file.lines = << Rec3("ftp1", "/home/alice/web") >>
        /\ fs["alice"].file.lines = << <<"ftp1", "pbkdf2:pw0", "/home/alice/web2">> >>

\* ================================================================== C11
\* The accounts that list_ftp_accounts would return for the store.
Listed(st) == IF st.file.ex THEN ListAccounts(st.file.lines) ELSE <<>>

\* The positions of ftp_username in a listing.
ListedAt(listing, ftp_username) ==
    {i \in 1..Len(listing) : listing[i].username = ftp_username}

NoCleanupRunning == \A u \in Threads : call[u].op = "cleanup" => Idle(u)

\* C11: when a create's append is done (the create then returns success), a
\* list of the owner's accounts taken at once, before any later update or
\* delete, holds exactly one record with the created ftp_username, and its
\* directory is the home_directory the create was given.
C11_CreatedRecordListedOnce ==
    [][\A t \in Threads :
         pc[t] = "c_write" /\ Steps(t) /\ NoCleanupRunning =>
           LET listing == Listed(fs'[O(t)])
               at == ListedAt(listing, call[t].ftp_username)
           IN  /\ Cardinality(at) = 1
               /\ \A i \in at : listing[i].directory = <<call[t].folder>>]_vars

\* ================================================================== C12
\* C12: when the reload fails after a create, update or delete has committed
\* its change, the operation still returns success (a degraded one) and the
\* step changes nothing on disk: the committed change is not rolled back.
C12_ReloadFailureKeepsCommit ==
    [][\A t \in Threads :
         pc[t] = "reload" /\ Steps(t) =>
           /\ Succeeded(res'[t])
           /\ fs' = fs
           /\ homes' = homes]_vars

\* A create whose reload failed has returned, and its record is in the file.
C12_Witness ==
    \E t \in Threads :
        /\ Finished(t) /\ call[t].op = "create" /\ res[t] = "Degraded"
        /\ fs[O(t)].file.ex
        /\ HasRecord(fs[O(t)].file.lines, call[t].ftp_username)

\* ================================================================== C13
Mutators == {"create", "update", "delete"}

\* The step of thread t that puts its change in the Record File: the append
\* of create, or the os.replace of update and delete.
CommitStep(t) ==
    LET o == O(t) IN
    \/ /\ pc[t] = "c_write"
       /\ fs[o].file.ex =>
            fs'[o].file = FileOf(Append(fs[o].file.lines,
                            FormatRecord(call[t].ftp_username,
                                generate_password_hash(call[t].password),
                                call[t].folder)))
    \/ /\ pc[t] = "rw_commit"
       /\ fs[o].tmp.ex /\ ~fs'[o].tmp.ex
       /\ fs'[o].file = FileOf(fs[o].tmp.lines)

ReloadCounts ==
    \A t \in Threads :
        /\ reloads[t] <= 1
        /\ call[t].op \notin Mutators => reloads[t] = 0
        /\ ~Idle(t) => reloads[t] = 0
        /\ Finished(t) /\ call[t].op \in Mutators =>
             (reloads[t] = 1 <=> Succeeded(res[t]))

\* C13: the reload is invoked exactly once by each create, update or delete
\* that commits a change, only after the step that put the change in the
\* Record File, and never by an operation that returns failure.
C13_ReloadOncePerCommit ==
    /\ []ReloadCounts
    /\ [][\A t \in Threads :
            /\ reloads'[t] > reloads[t] => pc[t] = "reload"
            /\ pc'[t] = "reload" /\ pc[t] # "reload" => CommitStep(t)]_vars

\* A delete that committed and reloaded once, next to a call that failed and
\* did not reload.
C13_Witness ==
    \E t, u \in Threads :
        /\ Finished(t) /\ call[t].op = "delete" /\ Succeeded(res[t])
        /\ reloads[t] = 1
        /\ Finished(u) /\ call[u].op \in Mutators /\ ~Succeeded(res[u])
        /\ reloads[u] = 0

\* ================================================================== C14
Rewrites == {"update", "delete"}

\* C14: when an I/O error is raised at a step of an update or a delete (the
\* read, the write of the temporary file, the rename), the operation returns
\* failure at that step, and no step of the operation has changed the Record
\* File: it holds what it held before the operation.
C14_IoErrorLeavesFile ==
    /\ [](\A t \in Threads :
            Finished(t) /\ call[t].op \in Rewrites /\ res[t] = "StorageError"
              => "file" \notin dirty[t])
    /\ [][\A t \in Threads :
            /\ Steps(t) /\ call[t].op \in Rewrites /\ io_errors' < io_errors =>
                 /\ \/ pc'[t] = "idle" /\ res'[t] = "StorageError"
                    \/ pc'[t] = "rw_failed"
                 /\ fs'[O(t)].file = fs[O(t)].file
                 /\ "file" \notin dirty'[t]
            /\ Steps(t) /\ pc[t] = "rw_failed" =>
                 /\ pc'[t] = "idle" /\ res'[t] = "StorageError"
                 /\ fs'[O(t)].file = fs[O(t)].file
                 /\ "file" \notin dirty'[t]]_vars

\* The only call made was an update or delete of an account that is in the
\* file; the disk raised an error, and the file is as it was.
C14_Witness ==
    \E t \in Threads :
        /\ Finished(t) /\ call[t].op \in Rewrites /\ res[t] = "StorageError"
        /\ \A u \in Threads \ {t} : ncalls[u] = 0
        /\ io_errors < MaxIoErrors
        /\ fs[O(t)].file.ex /\ fs[O(t)].file = fs0[O(t)].file
        /\ Found(fs[O(t)].file.lines, call[t].ftp_username)

\* ================================================================== C15
\* No update or delete of owner o is between its entry and its return.
NoRewriteRunning(o) ==
    \A t \in Threads :
        call[t].owner = o /\ call[t].op \in Rewrites => Idle(t)

\* C15: whenever no update or delete is executing for an owner, the owner's
\* users.list.tmp does not exist: every exit (success, account not found,
\* I/O error while rewriting, failed rename) has renamed or removed it.
C15_NoTempFileLeftBehind ==
    \A o \in Owners : NoRewriteRunning(o) => ~fs[o].tmp.ex

\* An update or delete wrote its temp file, failed on an I/O error, and has
\* returned; nothing is running and the temp file is gone.
C15_Witness ==
    \E t \in Threads :
        /\ Finished(t) /\ call[t].op \in Rewrites /\ res[t] = "StorageError"
        /\ "tmp" \in dirty[t]
        /\ io_errors < MaxIoErrors
        /\ NoRewriteRunning(O(t))
        /\ ~fs[O(t)].tmp.ex

\* ================================================================== C16
\* path is home itself or nested under it, component by component.
IsUnder(home, path) ==
    Len(path) >= Len(home) /\ SubSeq(path, 1, Len(home)) = home

\* The home directories recorded in a file (short-format records have
\* none, and an update of one of them without a folder writes the empty
\* home_directory).
RecordedHomes(lines) ==
    {lines[i][3] : i \in {j \in 1..Len(lines) :
                            Len(lines[j]) > 2 /\ lines[j][3] # ""}}

Returned(t) == Outcome(res[t], IF call[t].op = "list" THEN obs[t] ELSE <<>>)

\* Thread t has made one call, now finished, and no other thread has made a
\* call for the same owner.
OnlyCallOfOwner(t) ==
    /\ Finished(t) /\ ncalls[t] = 1
    /\ \A u \in Threads \ {t} :
          ncalls[u] <= 1 /\ (ncalls[u] = 1 => call[u].owner # call[t].owner)

\* C17: a step of an operation for owner A changes no file of any other
\* owner B and makes no directory outside /home/A; and what the operation
\* returns and leaves in A's store is what it returns and leaves when run
\* alone on A's store, whatever B's Record File holds and whatever calls run
\* for B at the same time.
C17_OwnersAreIsolated ==
    /\ [](\A t \in Threads :
            OnlyCallOfOwner(t) =>
              [st |-> fs[call[t].owner], out |-> Returned(t)]
                = Alone(fs0[call[t].owner], call[t]))
    /\ [][\A t \in Threads :
            Steps(t) =>
              /\ \A o \in Owners \ {call'[t].owner} : fs'[o] = fs[o]
              /\ \A h \in homes' \ homes : IsUnder(UserHome(call'[t].owner), h)]_vars

\* A call for alice and a call for bob overlapped, both committed a change.
C17_Witness ==
    \E t, u \in Threads :
        /\ overlap
        /\ Finished(t) /\ call[t].owner = "alice" /\ call[t].op \in Mutators
        /\ Finished(u) /\ call[u].owner = "bob" /\ call[u].op \in Mutators
        /\ Succeeded(res[t]) /\ Succeeded(res[u])
        /\ fs["alice"].file # fs0["alice"].file
        /\ fs["bob"].file # fs0["bob"].file

\* ================================================================== C18
\* The lines of a file that are not records of ftp_username, in file order.
OtherLines(lines, ftp_username) ==
    SelectSeq(lines, LAMBDA l : StripSplit(l)[1] # ftp_username)

\* C18: the append of a create puts the new record after all the lines the
\* file had, which stay as they were; the os.replace of an update or delete
\* leaves every line of another account as it was and in the same order,
\* and an update leaves its record at the position it had.
C18_OrderPreserved ==
    [][\A t \in Threads :
         LET o == O(t)
             old == fs[o].file.lines
             new == fs'[o].file.lines
             name == call[t].ftp_username
         IN  /\ pc[t] = "c_write" /\ Steps(t) /\ fs[o].file.ex =>
                  /\ Len(new) = Len(old) + 1
                  /\ SubSeq(new, 1, Len(old)) = old
                  /\ StripSplit(new[Len(new)])[1] = name
             /\ pc[t] = "rw_commit" /\ pc'[t] = "reload" /\ fs[o].file.ex =>
                  /\ OtherLines(new, name) = OtherLines(old, name)
                  /\ call[t].op = "delete" => new = OtherLines(old, name)
                  /\ call[t].op = "update" =>
                       /\ Len(new) = Len(old)
                       /\ \A i \in 1..Len(old) :
                            IF StripSplit(old[i])[1] = name
                            THEN StripSplit(new[i])[1] = name
                            ELSE new[i] = old[i]]_vars

\* An update has committed on a file where its record stands between (or
\* before) other lines, and a create has appended to a file with lines.
C18_Witness ==
    \E t \in Threads :
        /\ Finished(t) /\ call[t].op = "update" /\ Succeeded(res[t])
        /\ ncalls[t] = 1 /\ \A u \in Threads \ {t} : ncalls[u] = 0
        /\ Len(fs0[O(t)].file.lines) > 1
        /\ fs[O(t)].file # fs0[O(t)].file
        /\ StripSplit(fs0[O(t)].file.lines[1])[1] = call[t].ftp_username

\* ================================================================== C19
\* The os.replace of an update by thread t, on a file that is there.
UpdateCommits(t) ==
    /\ call[t].op = "update"
    /\ pc[t] = "rw_commit" /\ pc'[t] = "reload"
    /\ fs[O(t)].file.ex

\* C19: when an update commits, a record of its account that carries fields
\* after the home directory (uid, gid, quota_soft, quota_hard) has, in the
\* rewritten line, the same fields with the same values.
C19_UpdateKeepsTrailingFields ==
    [][\A t \in Threads :
         UpdateCommits(t) =>
           LET old == fs[O(t)].file.lines
               new == fs'[O(t)].file.lines
           IN  \A i \in 1..Len(old) :
                 StripSplit(old[i])[1] = call[t].ftp_username /\ Len(old[i]) > 3
                 => /\ i <= Len(new)
                    /\ Len(new[i]) = Len(old[i])
                    /\ \A k \in 4..Len(old[i]) : new[i][k] = old[i][k]]_vars

\* ================================================================== C20
\* The directory list reports for the account, per record of that account.
ListedDirectories(st, ftp_username) ==
    LET listing == Listed(st)
    IN  {listing[i].directory : i \in ListedAt(listing, ftp_username)}

\* C20: when an update that supplies only a password commits on a record in
\* the short format (one or two fields), list reports the same directory
\* for the account after the update as before it.
C20_ShortRecordKeepsListedDirectory ==
    [][\A t \in Threads :
         /\ UpdateCommits(t)
         /\ call[t].password # None /\ call[t].folder = None
         /\ \A i \in 1..Len(fs[O(t)].file.lines) :
              StripSplit(fs[O(t)].file.lines[i])[1] = call[t].ftp_username
              => Len(fs[O(t)].file.lines[i]) <= 2
         => ListedDirectories(fs'[O(t)], call[t].ftp_username)
              = ListedDirectories(fs[O(t)], call[t].ftp_username)]_vars

\* ================================================================== C21
\* Where a thread is inside a `with file_lock:` block, and where it waits
\* to enter one.
LockedSection == {"c_check", "c_open", "c_write", "rw_open", "rw_write", "rw_commit"}
LockWait == {"c_lock1", "c_lock2", "rw_lock"}

\* The lock is held exactly by a thread inside a locked block: a handler that
\* has returned (or left the block by an exception) holds it no more.
LockHeldInsideOnly ==
    /\ \A t \in Threads : lock = t <=> pc[t] \in LockedSection
    /\ \A t \in Threads : Idle(t) => lock # t

\* Not every thread is waiting for a lock that somebody holds.
NotAllBlocked ==
    ~(lock # NoThread /\ \A t \in Threads : pc[t] \in LockWait)

\* C21: every create, update and delete call eventually returns; on every
\* exit (success, duplicate, not found, I/O error in the locked section) the
\* file lock is released by the time the call returns, and in no reachable
\* state are all threads blocked on the lock.
C21_CallsReturnAndReleaseLock ==
    /\ [](LockHeldInsideOnly /\ NotAllBlocked)
    /\ \A t \in Threads :
          (call[t].op \in Mutators /\ ~Idle(t)) ~> Idle(t)

\* A call failed on an I/O error inside the locked section and has returned;
\* the other thread has since entered its own locked section.
C21_Witness ==
    \E t, u \in Threads :
        /\ t # u
        /\ Finished(t) /\ call[t].op \in Rewrites /\ res[t] = "StorageError"
        /\ io_errors < MaxIoErrors /\ "tmp" \in dirty[t]
        /\ lock = u /\ pc[u] \in LockedSection

\* ================================================================== C22
\* C22: no thread holds the file lock while it invokes the reload: the lock
\* was released before, so a thread in the reload keeps no other thread out
\* of its locked section.
C22_NoLockDuringReload ==
    \A t \in Threads : pc[t] = "reload" => lock # t

\* One thread is in the reload while the other holds the lock, inside the
\* locked section of its own create, update or delete.
C22_Witness ==
    \E t, u \in Threads :
        /\ pc[t] = "reload"
        /\ lock = u /\ u # t /\ pc[u] \in LockedSection
        /\ call[u].op \in Mutators

\* ================================================================== C23
\* Threads t and u have each made one call for the same owner, a create of
\* one account and an update or delete of another, and both succeeded.
CreateWithRewrite(t, u) ==
    /\ Finished(t) /\ Finished(u) /\ ncalls[t] = 1 /\ ncalls[u] = 1
    /\ call[t].op = "create" /\ call[u].op \in Rewrites
    /\ call[t].owner = call[u].owner
    /\ call[t].ftp_username # call[u].ftp_username
    /\ Succeeded(res[t]) /\ Succeeded(res[u])

\* The file shows the update or delete that call c made.
Reflects(lines, c) ==
    IF c.op = "delete" THEN ~HasRecord(lines, c.ftp_username)
    ELSE /\ HasRecord(lines, c.ftp_username)
         /\ \A i \in 1..Len(lines) :
              StripSplit(lines[i])[1] = c.ftp_username =>
                /\ Len(lines[i]) > 2
                /\ c.password # None =>
                     lines[i][2] = generate_password_hash(c.password)
                /\ c.folder # None => lines[i][3] = c.folder

\* C23: when a create of account X and an update or delete of another
\* account Y of the same owner have both returned success, in whatever way
\* their steps interleaved, the Record File holds the record of X as the
\* create wrote it and shows the update or delete of Y.
C23_AppendAndRewriteBothKept ==
    \A t, u \in Threads :
        CreateWithRewrite(t, u) =>
          LET lines == fs[O(t)].file.lines IN
          /\ fs[O(t)].file.ex
          /\ \E i \in 1..Len(lines) :
                lines[i] = FormatRecord(call[t].ftp_username,
                              generate_password_hash(call[t].password),
                              call[t].folder)
          /\ Reflects(lines, call[u])

\* The two calls overlapped.
C23_Witness ==
    \E t, u \in Threads :
        /\ CreateWithRewrite(t, u) /\ overlap
        /\ fs0[O(t)].file.ex

=============================================================================
